---- MODULE Spec2Model ----
(***************************************************************************)
(* Booking lifecycle and payment reconciliation of the room-booking        *)
(* backend: the create_booking / cancel_booking agent tools, the Stripe    *)
(* webhook handler, the reconcile endpoint and the confirmation e-mail     *)
(* task, over the bookings and payments tables kept in Supabase.           *)
(*                                                                         *)
(* Every handler is an asyncio coroutine.  One action of the model is one  *)
(* database (or provider) request of a handler together with the Python    *)
(* code that runs up to the handler's next await; handlers interleave at   *)
(* these points.  A request that raises is the branch ok = FALSE.          *)
(*                                                                         *)
(* Instants are counted in quarters of an hour and amounts in quarters of  *)
(* a cent; rates are in cents.                                             *)
(***************************************************************************)
EXTENDS Integers, Sequences, FiniteSets, TLC

\* ------------------------------------------------------------------ bounds
MaxCreates == 2     \* clients calling create_booking at the same time
MaxSeqCreates == 2  \* create_booking calls of a run without interleaving
MaxTime == 2        \* the clock runs over 0..MaxTime
MaxDispatch == 2    \* confirmation e-mails counted per booking

\* ------------------------------------------------------------- input sets
Users == {"u1", "u2"}
SpaceIds == {"s1", "s2"}
Times == 0..MaxTime
Hours == {0, 1, 2}  \* instants (quarters of an hour) offered as start and end
Creators == 1..MaxCreates
SeqCreators == {1}
BookingIds == 1..(MaxCreates + MaxSeqCreates)
Cancellers == {"k1"}
Webhooks == {"w1"}
Reconcilers == {"r1"}
TaskIds == 1..2

NoTime == 0 - 1     \* paid_at IS NULL

\* profiles table: u1 has a profile row carrying an e-mail, u2 has no row
ProfileOf(u) == IF u = "u1" THEN "email" ELSE "none"

VARIABLES
    now,          \* datetime.now()
    bookings,     \* bookings table: row i has id i
    payments,     \* payments table, in insertion order
    links,        \* provider: bookings for which a payment link was minted
    paid,         \* provider: bookings with a succeeded PaymentIntent
    failedPay,    \* provider: bookings with a failed payment attempt
    creators,     \* create_booking calls
    cancellers,   \* cancel_booking calls
    webhooks,     \* stripe_webhook requests
    reconcilers,  \* reconcile_booking_payment requests
    tasks,        \* send_booking_confirmation_email tasks
    dispatched,   \* e-mails handed to the mail provider, per booking
    slots         \* the last answer of get_available_time_slots

vars == <<now, bookings, payments, links, paid, failedPay, creators,
          cancellers, webhooks, reconcilers, tasks, dispatched, slots>>

\* ----------------------------------------------------- persistence layer

\* bookings rows of a space that are not cancelled and overlap [st, en)
OverlappingRows(bks, s, st, en) ==
    {i \in 1..Len(bks) : /\ bks[i].space_id = s
                         /\ bks[i].status # "cancelled"
                         /\ bks[i].start_time < en
                         /\ bks[i].end_time > st}

\* an overlap test that counts touching intervals
CheckSpaceAvailabilityClosed(bks, s, st, en) ==
    {i \in 1..Len(bks) : /\ bks[i].space_id = s
                         /\ bks[i].status # "cancelled"
                         /\ bks[i].start_time <= en
                         /\ bks[i].end_time >= st} = {}

CheckSpaceAvailability(bks, s, st, en) ==
    OverlappingRows(bks, s, st, en) = {}

InsertBooking(bks, u, s, st, en, dt, amt) ==
    Append(bks, [user_id |-> u, space_id |-> s, start_time |-> st,
                 end_time |-> en, duration_type |-> dt, total_amount |-> amt,
                 status |-> "pending"])

UpdateBookingStatus(bks, b, status) ==
    [i \in 1..Len(bks) |-> IF i = b THEN [bks[i] EXCEPT !.status = status]
                                    ELSE bks[i]]

\* UPDATE bookings SET status = 'cancelled' WHERE id = b AND user_id = u
CancelRows(bks, b, u) ==
    {i \in 1..Len(bks) : i = b /\ bks[i].user_id = u}

CancelBookingRow(bks, b, u) ==
    [i \in 1..Len(bks) |-> IF i \in CancelRows(bks, b, u)
                           THEN [bks[i] EXCEPT !.status = "cancelled"]
                           ELSE bks[i]]

CreatePaymentRecord(pays, b, txn) ==
    Append(pays, [booking_id |-> b, payment_status |-> "pending",
                  transaction_id |-> txn, paid_at |-> NoTime,
                  receipt_url |-> "none"])

\* "none" / NoTime stand for an argument left at None: the column is not written
UpdatePaymentStatus(pays, b, status, txn, paidAt, receipt) ==
    [i \in 1..Len(pays) |->
        IF pays[i].booking_id = b
        THEN [pays[i] EXCEPT
                !.payment_status = status,
                !.transaction_id = IF txn # "none" THEN txn ELSE @,
                !.paid_at = IF paidAt # NoTime THEN paidAt ELSE @,
                !.receipt_url = IF receipt # "none" THEN receipt ELSE @]
        ELSE pays[i]]

PaymentRows(pays, b) == {i \in 1..Len(pays) : pays[i].booking_id = b}

HasPayment(pays, b) == PaymentRows(pays, b) # {}

Min(S) == CHOOSE x \in S : \A y \in S : x <= y

\* .limit(1): the first row of the booking
GetPaymentByBooking(pays, b) == pays[Min(PaymentRows(pays, b))]

\* ---------------------------------------------------------- create_booking

\* the catalog: s1 has an hourly and a daily rate, s2 a daily and a monthly
\* rate, s3 a monthly rate only; 0 is a rate that is not set
PricedSpaces == SpaceIds \cup {"s3"}

\* the rows of the spaces table: s4 is a row with is_active = false and an
\* hourly rate
SpaceRows == PricedSpaces \cup {"s4"}

IsActive(s) == s \in PricedSpaces

\* the ids a caller may pass: s0 is a well-formed id of no row
RequestedSpaces == SpaceRows \cup {"s0"}

\* get_space_by_id: eq("id", space_id).single(); is_active is not looked at
GetSpaceById(s) == s \in SpaceRows

\* rates in cents: RM 40.50 an hour, RM 200 a day, RM 900 a month
HourlyRate(s) == IF s \in {"s1", "s4"} THEN 4050 ELSE 0

DailyRate(s) == IF s \in {"s1", "s2"} THEN 20000 ELSE 0

MonthlyRate(s) == IF s \in {"s2", "s3"} THEN 90000 ELSE 0

\* the three billing modes and a word that is none of them
DurationTypes == {"hourly", "daily", "monthly", "weekly"}

NoPrice == 0 - 1

\* a billing mode that falls back to no other rate
TotalAmountNoFallback(s, dt, quarters) ==
    IF dt = "hourly" /\ HourlyRate(s) # 0 THEN HourlyRate(s) * quarters
    ELSE IF dt = "daily" /\ DailyRate(s) # 0 THEN DailyRate(s) * 4
    ELSE IF dt = "monthly" /\ MonthlyRate(s) # 0 THEN MonthlyRate(s) * 4
    ELSE NoPrice

\* total_amount of a booking, NoPrice if it has none.  The instants of the
\* model are a quarter of an hour apart and total_amount is in quarters of a
\* cent: rate * duration_hours = rate * quarters / 4.  Rates and durations
\* are binary fractions, so the float product is the exact product.
TotalAmount(s, dt, quarters) ==
    IF dt = "hourly" /\ HourlyRate(s) # 0 THEN HourlyRate(s) * quarters
    ELSE IF dt = "daily" /\ DailyRate(s) # 0 THEN DailyRate(s) * 4
    ELSE IF dt = "monthly" /\ MonthlyRate(s) # 0 THEN MonthlyRate(s) * 4
    ELSE IF HourlyRate(s) # 0 THEN HourlyRate(s) * quarters
    ELSE IF DailyRate(s) # 0 THEN DailyRate(s) * 4
    ELSE NoPrice

\* n / d rounded to the nearest integer, a half going up
RoundHalfUp(n, d) == (2 * n + d) \div (2 * d)

\* round() of Python 3: n / d rounded to the nearest integer, a half going to
\* the even neighbour
RoundHalfEven(n, d) ==
    LET q == n \div d
        r == n % d
    IN  IF 2 * r < d THEN q
        ELSE IF 2 * r > d THEN q + 1
        ELSE IF q % 2 = 0 THEN q ELSE q + 1

\* amount_cents = int(round(total_amount * 100))
AmountCents(amt) == RoundHalfEven(amt, 4)

IdleCreator ==
    [pc |-> "idle", calls |-> 0, user_id |-> "u1", space_id |-> "s1", start_time |-> 0,
     end_time |-> 0, duration_type |-> "hourly", called_at |-> 0,
     total_amount |-> 0, booking_id |-> 0, result |-> "none",
     payment_link |-> FALSE, payment_error |-> FALSE, amount_cents |-> 0,
     retried |-> FALSE]

CreatorReturn(c, res) ==
    creators' = [creators EXCEPT ![c].pc = "idle", ![c].result = res]

\* a call that does not look at the clock
CreateBookingCallNoPastCheck(c, u, s, st, en, dt) ==
    /\ creators[c].pc = "idle"
    /\ creators' = [creators EXCEPT ![c] =
            [IdleCreator EXCEPT
                !.calls = creators[c].calls + 1,
                !.user_id = u, !.space_id = s, !.start_time = st, !.end_time = en,
                !.duration_type = dt, !.called_at = now,
                !.pc = IF en <= st THEN "idle" ELSE "check",
                !.result = IF en <= st THEN "bad_interval" ELSE "none"]]
    /\ UNCHANGED <<now, bookings, payments, links, paid, failedPay,
                   cancellers, webhooks, reconcilers, tasks, dispatched, slots>>

\* the call: datetime validation, then get_space_by_id.  calls counts the
\* calls a client has made; the record keeps the last one.
CreateBookingCall(c, u, s, st, en, dt) ==
    /\ creators[c].pc = "idle"
    /\ creators' = [creators EXCEPT ![c] =
            [IdleCreator EXCEPT
                !.calls = creators[c].calls + 1,
                !.user_id = u, !.space_id = s, !.start_time = st, !.end_time = en,
                !.duration_type = dt, !.called_at = now,
                !.pc = IF st < now \/ en <= st THEN "idle" ELSE "check",
                !.result = IF st < now THEN "past"
                           ELSE IF en <= st THEN "bad_interval"
                           ELSE "none"]]
    /\ UNCHANGED <<now, bookings, payments, links, paid, failedPay,
                   cancellers, webhooks, reconcilers, tasks, dispatched, slots>>

\* get_space_by_id, check_space_availability, then the price of the booking.
\* For an id of no row .single() raises out of the tool, or the client hands
\* back no data and the tool answers "Space not found".
CreateBookingCheck(c, ok) ==
    /\ creators[c].pc = "check"
    /\ LET r == creators[c]
           amt == TotalAmount(r.space_id, r.duration_type, r.end_time - r.start_time)
       IN
        IF ~ok THEN CreatorReturn(c, "exception")
        ELSE IF ~GetSpaceById(r.space_id)
        THEN \E res \in {"exception", "space_not_found"} : CreatorReturn(c, res)
        ELSE IF ~CheckSpaceAvailability(bookings, r.space_id, r.start_time, r.end_time)
        THEN CreatorReturn(c, "unavailable")
        ELSE IF amt = NoPrice THEN CreatorReturn(c, "no_pricing")
        ELSE creators' = [creators EXCEPT ![c].pc = "insert", ![c].total_amount = amt]
    /\ UNCHANGED <<now, bookings, payments, links, paid, failedPay,
                   cancellers, webhooks, reconcilers, tasks, dispatched, slots>>

\* what one insert through _execute can come to: the request is answered
\* ("ok"); it raises and no row was written ("error"); wait_for gives up and
\* raises TimeoutError while the worker thread's request still goes through
\* ("timeout_landed"); the connection breaks after the server wrote the row,
\* RemoteProtocolError is caught and the second attempt inserts again and is
\* answered ("retried_twice")
InsertOutcomes == {"ok", "error", "timeout_landed", "retried_twice"}

\* supabase.create_booking: the insert of the pending row, run by _execute
CreateBookingInsert(c, out) ==
    /\ creators[c].pc = "insert"
    /\ LET r == creators[c]
           once == InsertBooking(bookings, r.user_id, r.space_id,
                                 r.start_time, r.end_time,
                                 r.duration_type, r.total_amount)
           twice == InsertBooking(once, r.user_id, r.space_id,
                                  r.start_time, r.end_time,
                                  r.duration_type, r.total_amount)
       IN
        IF out = "ok"
        THEN /\ bookings' = once
             /\ creators' = [creators EXCEPT ![c].pc = "mint",
                                             ![c].booking_id = Len(once)]
        ELSE IF out = "retried_twice"
        THEN /\ bookings' = twice
             /\ creators' = [creators EXCEPT ![c].pc = "mint",
                                             ![c].booking_id = Len(twice),
                                             ![c].retried = TRUE]
        ELSE IF out = "timeout_landed"
        THEN /\ bookings' = once
             /\ CreatorReturn(c, "failed")
        ELSE /\ CreatorReturn(c, "failed")
             /\ UNCHANGED bookings
    /\ UNCHANGED <<now, payments, links, paid, failedPay,
                   cancellers, webhooks, reconcilers, tasks, dispatched, slots>>

\* a handler that takes the booking back when no link could be minted
CreateBookingMintRollback(c, ok) ==
    /\ creators[c].pc = "mint"
    /\ IF ok
       THEN /\ links' = links \cup {creators[c].booking_id}
            /\ creators' = [creators EXCEPT ![c].pc = "record",
                                            ![c].payment_link = TRUE,
                                            ![c].amount_cents =
                                                AmountCents(creators[c].total_amount)]
            /\ UNCHANGED bookings
       ELSE /\ creators' = [creators EXCEPT ![c].pc = "idle",
                                            ![c].result = "success",
                                            ![c].payment_error = TRUE]
            /\ bookings' = UpdateBookingStatus(bookings, creators[c].booking_id,
                                               "cancelled")
            /\ UNCHANGED links
    /\ UNCHANGED <<now, payments, paid, failedPay,
                   cancellers, webhooks, reconcilers, tasks, dispatched, slots>>

\* _create_payment_link_sync under the 12 s timeout
CreateBookingMint(c, ok) ==
    /\ creators[c].pc = "mint"
    /\ IF ok
       THEN /\ links' = links \cup {creators[c].booking_id}
            /\ creators' = [creators EXCEPT ![c].pc = "record",
                                            ![c].payment_link = TRUE,
                                            ![c].amount_cents =
                                                AmountCents(creators[c].total_amount)]
       ELSE /\ creators' = [creators EXCEPT ![c].pc = "idle",
                                            ![c].result = "success",
                                            ![c].payment_error = TRUE]
            /\ UNCHANGED links
    /\ UNCHANGED <<now, bookings, payments, paid, failedPay,
                   cancellers, webhooks, reconcilers, tasks, dispatched, slots>>

\* create_payment_record, best effort
CreateBookingRecord(c, ok) ==
    /\ creators[c].pc = "record"
    /\ payments' = IF ok
                   THEN CreatePaymentRecord(payments, creators[c].booking_id, "plink")
                   ELSE payments
    /\ CreatorReturn(c, "success")
    /\ UNCHANGED <<now, bookings, links, paid, failedPay,
                   cancellers, webhooks, reconcilers, tasks, dispatched, slots>>


\* ---------------------------------------------------------- cancel_booking

IdleCanceller == [pc |-> "idle", booking_id |-> 0, user_id |-> "u1", result |-> "none"]

CancellerReturn(k, res) ==
    cancellers' = [cancellers EXCEPT ![k] = [IdleCanceller EXCEPT !.result = res]]

\* the call: get_booking_by_id, then the ownership and status checks
\* a call that does not compare the booking's owner with the caller
CancelBookingCallNoOwnerCheck(k, b, u, ok) ==
    /\ cancellers[k].pc = "idle"
    /\ b \in 1..Len(bookings)
    /\ IF ~ok THEN CancellerReturn(k, "exception")
       ELSE IF bookings[b].status = "cancelled" THEN CancellerReturn(k, "already_cancelled")
       ELSE IF bookings[b].status = "completed" THEN CancellerReturn(k, "completed")
       ELSE cancellers' = [cancellers EXCEPT ![k] =
                [pc |-> "update", booking_id |-> b, user_id |-> u, result |-> "none"]]
    /\ UNCHANGED <<now, bookings, payments, links, paid, failedPay, creators,
                   webhooks, reconcilers, tasks, dispatched, slots>>

CancelBookingCall(k, b, u, ok) ==
    /\ cancellers[k].pc = "idle"
    /\ b \in 1..Len(bookings)
    /\ IF ~ok THEN CancellerReturn(k, "exception")
       ELSE IF bookings[b].user_id # u THEN CancellerReturn(k, "not_owner")
       ELSE IF bookings[b].status = "cancelled" THEN CancellerReturn(k, "already_cancelled")
       ELSE IF bookings[b].status = "completed" THEN CancellerReturn(k, "completed")
       ELSE cancellers' = [cancellers EXCEPT ![k] =
                [pc |-> "update", booking_id |-> b, user_id |-> u, result |-> "none"]]
    /\ UNCHANGED <<now, bookings, payments, links, paid, failedPay, creators,
                   webhooks, reconcilers, tasks, dispatched, slots>>

\* supabase.cancel_booking: the update filtered by id and user_id
CancelBookingUpdate(k, ok) ==
    /\ cancellers[k].pc = "update"
    /\ LET r == cancellers[k] IN
        IF ok
        THEN /\ bookings' = CancelBookingRow(bookings, r.booking_id, r.user_id)
             /\ CancellerReturn(k, IF CancelRows(bookings, r.booking_id, r.user_id) # {}
                                   THEN "cancelled" ELSE "failed")
        ELSE /\ CancellerReturn(k, "exception")
             /\ UNCHANGED bookings
    /\ UNCHANGED <<now, payments, links, paid, failedPay, creators,
                   webhooks, reconcilers, tasks, dispatched, slots>>

\* ------------------------------------------------- clock, payment provider

Tick ==
    /\ now < MaxTime
    /\ now' = now + 1
    /\ UNCHANGED <<bookings, payments, links, paid, failedPay, creators,
                   cancellers, webhooks, reconcilers, tasks, dispatched, slots>>

\* the customer completes the checkout of a booking's payment link
CustomerPays(b) ==
    /\ b \in links
    /\ b \notin paid
    /\ paid' = paid \cup {b}
    /\ UNCHANGED <<now, bookings, payments, links, failedPay, creators,
                   cancellers, webhooks, reconcilers, tasks, dispatched, slots>>

\* a payment attempt on the link is declined
PaymentAttemptFails(b) ==
    /\ b \in links
    /\ b \notin paid
    /\ b \notin failedPay
    /\ failedPay' = failedPay \cup {b}
    /\ UNCHANGED <<now, bookings, payments, links, paid, creators,
                   cancellers, webhooks, reconcilers, tasks, dispatched, slots>>

\* ------------------------------------------- confirmation e-mail task pool

FreeTask ==
    [pc |-> "free", booking_id |-> 0, has_payment |-> FALSE,
     pay_status |-> "none", pay_txn |-> "none", pay_receipt |-> "none",
     sent |-> FALSE]

FreeTasks == {t \in DOMAIN tasks : tasks[t].pc = "free"}

FirstFree == CHOOSE t \in FreeTasks : \A x \in FreeTasks : t <= x

\* asyncio.create_task(send_booking_confirmation_email(booking_id, fallback_email))
CreateTask(b) ==
    /\ FreeTasks # {}
    /\ tasks' = [tasks EXCEPT ![FirstFree] =
                    [FreeTask EXCEPT !.pc = "get_booking", !.booking_id = b]]

\* ---------------------------------------------------------- stripe_webhook

SharedSecret == "whsec"

EventKinds ==
    {"checkout.session.completed", "payment_intent.succeeded",
     "payment_intent.payment_failed", "customer.created", "other"}

\* request bodies: an event of one of the kinds, or bytes that are not an event
Payloads == EventKinds \cup {"garbage"}

\* the Stripe-Signature header: the key that signed and the body it signed;
\* key "none" is a request without the header
Sign(key, body) == [key |-> key, body |-> body]

Headers(body) ==
    {Sign(k, q) : k \in {"none", SharedSecret, "forged"}, q \in {body, "replayed"}}

\* what the sender did, for the record of the request
SigClass(body, header) ==
    IF header.key = "none" THEN "missing"
    ELSE IF header.key # SharedSecret THEN "forged"
    ELSE IF header.body # body THEN "replayed"
    ELSE "valid"

\* a handler that takes every request that carries some header for an event
ConstructEventUnverified(body, header) ==
    IF header.key = "none" THEN "missing" ELSE "event"

\* the header test and stripe.Webhook.construct_event(payload, header, secret)
ConstructEvent(body, header) ==
    IF header.key = "none" THEN "missing"
    ELSE IF body = "garbage" THEN "invalid_payload"
    ELSE IF header # Sign(SharedSecret, body) THEN "invalid_signature"
    ELSE "event"

\* how the accepted requests of a body were signed
AcceptedSigs(body) ==
    {SigClass(body, h) : h \in {x \in Headers(body) : ConstructEvent(body, x) = "event"}}

\* booking_id of the event: session metadata (sref), else the metadata of the
\* session's payment intent (hasPi, pref) when it can be retrieved; for the
\* payment_intent kinds the event object is the intent itself
BookingRef(kind, sref, hasPi, pref, retrieveOk) ==
    IF kind = "checkout.session.completed"
    THEN IF sref # 0 THEN sref
         ELSE IF hasPi /\ retrieveOk THEN pref
         ELSE 0
    ELSE pref

IdleWebhook ==
    [pc |-> "idle", booking_id |-> 0, event |-> "none", sig |-> "none",
     response |-> "none", writes |-> 0, spawned |-> FALSE]

\* the handler returns: the record holds the request and what was done for it
WebhookReturn(w, kind, sig, b, response, writes, spawned) ==
    webhooks' = [webhooks EXCEPT ![w] =
        [pc |-> "done", booking_id |-> b, event |-> kind, sig |-> sig,
         response |-> response, writes |-> writes, spawned |-> spawned]]

\* a verified checkout.session.completed event of booking b: update_booking_status
WebhookCheckoutCompleted(w, b, ok) ==
    /\ webhooks[w].pc = "idle"
    /\ b \in paid
    /\ \E sig \in AcceptedSigs("checkout.session.completed") :
        IF ok
        THEN /\ bookings' = UpdateBookingStatus(bookings, b, "confirmed")
             /\ webhooks' = [webhooks EXCEPT ![w] =
                    [IdleWebhook EXCEPT !.pc = "upd_payment", !.booking_id = b,
                        !.event = "checkout.session.completed", !.sig = sig,
                        !.writes = 1]]
        ELSE /\ UNCHANGED bookings
             /\ WebhookReturn(w, "checkout.session.completed", sig, b, "success", 0, FALSE)
    /\ UNCHANGED <<now, payments, links, paid, failedPay, creators,
                   cancellers, reconcilers, tasks, dispatched, slots>>

\* a handler that lets the exception of update_payment_status out
WebhookUpdatePaymentRaises(w, ok) ==
    /\ webhooks[w].pc = "upd_payment"
    /\ LET r == webhooks[w] IN
        IF ok
        THEN /\ payments' = UpdatePaymentStatus(payments, r.booking_id, "completed",
                                                "pi", now, "none")
             /\ CreateTask(r.booking_id)
             /\ WebhookReturn(w, r.event, r.sig, r.booking_id, "success", 2, TRUE)
        ELSE /\ UNCHANGED <<payments, tasks>>
             /\ WebhookReturn(w, r.event, r.sig, r.booking_id, "error", 1, FALSE)
    /\ UNCHANGED <<now, bookings, links, paid, failedPay, creators,
                   cancellers, reconcilers, dispatched, slots>>

\* update_payment_status, then the e-mail task is created and the event acknowledged
WebhookUpdatePayment(w, ok) ==
    /\ webhooks[w].pc = "upd_payment"
    /\ LET r == webhooks[w] IN
        IF ok
        THEN /\ payments' = UpdatePaymentStatus(payments, r.booking_id, "completed",
                                                "pi", now, "none")
             /\ CreateTask(r.booking_id)
             /\ WebhookReturn(w, r.event, r.sig, r.booking_id, "success", 2, TRUE)
        ELSE /\ UNCHANGED <<payments, tasks>>
             /\ WebhookReturn(w, r.event, r.sig, r.booking_id, "success", 1, FALSE)
    /\ UNCHANGED <<now, bookings, links, paid, failedPay, creators,
                   cancellers, reconcilers, dispatched, slots>>

\* a verified payment_intent.succeeded event of booking b
WebhookIntentSucceeded(w, b, ok) ==
    /\ webhooks[w].pc = "idle"
    /\ b \in paid
    /\ bookings' = IF ok THEN UpdateBookingStatus(bookings, b, "confirmed") ELSE bookings
    /\ \E sig \in AcceptedSigs("payment_intent.succeeded") :
        WebhookReturn(w, "payment_intent.succeeded", sig, b, "success",
                      IF ok THEN 1 ELSE 0, FALSE)
    /\ UNCHANGED <<now, payments, links, paid, failedPay, creators,
                   cancellers, reconcilers, tasks, dispatched, slots>>

\* a handler that gives the booking up when its payment fails
WebhookPaymentFailedCancels(w, b, ok) ==
    /\ webhooks[w].pc = "idle"
    /\ b \in failedPay
    /\ payments' = IF ok
                   THEN UpdatePaymentStatus(payments, b, "failed", "none", NoTime, "none")
                   ELSE payments
    /\ bookings' = IF ok THEN UpdateBookingStatus(bookings, b, "cancelled") ELSE bookings
    /\ \E sig \in AcceptedSigs("payment_intent.payment_failed") :
        WebhookReturn(w, "payment_intent.payment_failed", sig, b, "failed",
                      IF ok THEN 1 ELSE 0, FALSE)
    /\ UNCHANGED <<now, links, paid, failedPay, creators,
                   cancellers, reconcilers, tasks, dispatched, slots>>

\* a verified payment_intent.payment_failed event of booking b
WebhookPaymentFailed(w, b, ok) ==
    /\ webhooks[w].pc = "idle"
    /\ b \in failedPay
    /\ payments' = IF ok
                   THEN UpdatePaymentStatus(payments, b, "failed", "none", NoTime, "none")
                   ELSE payments
    /\ \E sig \in AcceptedSigs("payment_intent.payment_failed") :
        WebhookReturn(w, "payment_intent.payment_failed", sig, b, "failed",
                      IF ok THEN 1 ELSE 0, FALSE)
    /\ UNCHANGED <<now, bookings, links, paid, failedPay, creators,
                   cancellers, reconcilers, tasks, dispatched, slots>>

\* a request without the header, with a body that is not an event, or with a
\* header that does not verify: HTTP 400 before any event is looked at
WebhookReject(w, body, header) ==
    /\ webhooks[w].pc = "idle"
    /\ ConstructEvent(body, header) # "event"
    /\ WebhookReturn(w, body, SigClass(body, header), 0, "400", 0, FALSE)
    /\ UNCHANGED <<now, bookings, payments, links, paid, failedPay, creators,
                   cancellers, reconcilers, tasks, dispatched, slots>>

\* customer.created and unhandled kinds treated as a failed payment of pref
WebhookAcknowledgeAsFailure(w, kind, sref, hasPi, pref, retrieveOk) ==
    /\ webhooks[w].pc = "idle"
    /\ kind \in {"customer.created", "other"}
    /\ pref # 0
    /\ payments' = UpdatePaymentStatus(payments, pref, "failed", "none", NoTime, "none")
    /\ \E sig \in AcceptedSigs(kind) :
        WebhookReturn(w, kind, sig, 0, "failed", 1, FALSE)
    /\ UNCHANGED <<now, bookings, links, paid, failedPay, creators,
                   cancellers, reconcilers, tasks, dispatched, slots>>

\* a verified event that names no booking, a customer.created event, an event
\* of a kind the handler does not know: acknowledged, nothing else
WebhookAcknowledge(w, kind, sref, hasPi, pref, retrieveOk) ==
    /\ webhooks[w].pc = "idle"
    /\ \/ kind \in {"customer.created", "other"}
       \/ BookingRef(kind, sref, hasPi, pref, retrieveOk) = 0
    /\ \E sig \in AcceptedSigs(kind) :
        WebhookReturn(w, kind, sig, 0,
            CASE kind = "payment_intent.payment_failed" -> "failed"
              [] kind = "other" -> "ignored"
              [] OTHER -> "success",
            0, FALSE)
    /\ UNCHANGED <<now, bookings, payments, links, paid, failedPay, creators,
                   cancellers, reconcilers, tasks, dispatched, slots>>

\* the response is sent and the request is over
WebhookRespond(w) ==
    /\ webhooks[w].pc = "done"
    /\ webhooks' = [webhooks EXCEPT ![w] = IdleWebhook]
    /\ UNCHANGED <<now, bookings, payments, links, paid, failedPay, creators,
                   cancellers, reconcilers, tasks, dispatched, slots>>

\* ----------------------------------------------- reconcile_booking_payment

IdleReconciler ==
    [pc |-> "idle", booking_id |-> 0, seen |-> "none", calls |-> 0,
     wrote |-> FALSE, spawned |-> FALSE, result |-> "none"]

ReconcilerReturn(r, res) ==
    reconcilers' = [reconcilers EXCEPT ![r].pc = "idle", ![r].result = res]

\* the status read that goes on to the provider instead of returning
ReconcileCallNoShortCircuit(r, b, ok) ==
    /\ reconcilers[r].pc = "idle"
    /\ b \in 1..Len(bookings)
    /\ reconcilers' = [reconcilers EXCEPT ![r] =
            IF ~ok THEN [IdleReconciler EXCEPT !.booking_id = b, !.result = "error"]
            ELSE [IdleReconciler EXCEPT !.booking_id = b, !.pc = "get_payment",
                                        !.seen = bookings[b].status]]
    /\ UNCHANGED <<now, bookings, payments, links, paid, failedPay, creators,
                   cancellers, webhooks, tasks, dispatched, slots>>

\* the call: get_booking_by_id and the short-circuit on a confirmed booking
ReconcileCall(r, b, ok) ==
    /\ reconcilers[r].pc = "idle"
    /\ b \in 1..Len(bookings)
    /\ reconcilers' = [reconcilers EXCEPT ![r] =
            IF ~ok THEN [IdleReconciler EXCEPT !.booking_id = b, !.result = "error"]
            ELSE IF bookings[b].status = "confirmed"
            THEN [IdleReconciler EXCEPT !.booking_id = b, !.seen = "confirmed",
                                        !.result = "confirmed"]
            ELSE [IdleReconciler EXCEPT !.booking_id = b, !.pc = "get_payment",
                                        !.seen = bookings[b].status]]
    /\ UNCHANGED <<now, bookings, payments, links, paid, failedPay, creators,
                   cancellers, webhooks, tasks, dispatched, slots>>

\* stripe.checkout.Session.list(payment_link = txn): a session of the link whose
\* payment_status is "paid" and that carries a payment intent
PaidSession(b, txn, pd, fl) == txn = "plink" /\ b \in pd

\* the search result filter dropped: any intent of the booking is taken
SucceededIntentAny(b, pd, fl) == b \in pd \cup fl

\* stripe.PaymentIntent.search by metadata booking_id, filtered on status "succeeded"
SucceededIntent(b, pd, fl) == b \in pd

\* get_payment_by_booking, then the provider lookups (blocking calls, no await
\* between them); listOk, retrieveOk, searchOk: the provider call does not raise
ReconcileLookup(r, ok, listOk, retrieveOk, searchOk) ==
    /\ reconcilers[r].pc = "get_payment"
    /\ LET b == reconcilers[r].booking_id
           txn == IF HasPayment(payments, b)
                  THEN GetPaymentByBooking(payments, b).transaction_id ELSE "none"
           listed == txn # "none"
           session == listed /\ listOk /\ PaidSession(b, txn, paid, failedPay)
           retrieved == session /\ retrieveOk
           searched == ~retrieved
           found == retrieved \/ (searchOk /\ SucceededIntent(b, paid, failedPay))
           n == (IF listed THEN 1 ELSE 0) + (IF session THEN 1 ELSE 0)
                + (IF searched THEN 1 ELSE 0)
       IN  reconcilers' = [reconcilers EXCEPT ![r] =
                IF ~ok THEN [@ EXCEPT !.pc = "idle", !.result = "error"]
                ELSE IF searched /\ ~searchOk
                THEN [@ EXCEPT !.pc = "idle", !.result = "error", !.calls = n]
                ELSE IF ~found
                THEN [@ EXCEPT !.pc = "idle", !.result = "pending", !.calls = n]
                ELSE [@ EXCEPT !.pc = "upd_booking", !.calls = n]]
    /\ UNCHANGED <<now, bookings, payments, links, paid, failedPay, creators,
                   cancellers, webhooks, tasks, dispatched, slots>>

\* update_booking_status(booking_id, "confirmed")
ReconcileUpdateBooking(r, ok) ==
    /\ reconcilers[r].pc = "upd_booking"
    /\ IF ok
       THEN /\ bookings' = UpdateBookingStatus(bookings, reconcilers[r].booking_id,
                                               "confirmed")
            /\ reconcilers' = [reconcilers EXCEPT ![r].pc = "upd_payment",
                                                  ![r].wrote = TRUE]
       ELSE /\ ReconcilerReturn(r, "error")
            /\ UNCHANGED bookings
    /\ UNCHANGED <<now, payments, links, paid, failedPay, creators,
                   cancellers, webhooks, tasks, dispatched, slots>>

\* update_payment_status(booking_id, "completed", intent id, now)
ReconcileUpdatePayment(r, ok) ==
    /\ reconcilers[r].pc = "upd_payment"
    /\ IF ok
       THEN /\ payments' = UpdatePaymentStatus(payments, reconcilers[r].booking_id,
                                               "completed", "pi", now, "none")
            /\ reconcilers' = [reconcilers EXCEPT ![r].pc = "reload"]
       ELSE /\ ReconcilerReturn(r, "error")
            /\ UNCHANGED payments
    /\ UNCHANGED <<now, bookings, links, paid, failedPay, creators,
                   cancellers, webhooks, tasks, dispatched, slots>>

\* get_booking_by_id again, then the e-mail task is created and the call returns
ReconcileReload(r, ok) ==
    /\ reconcilers[r].pc = "reload"
    /\ IF ok
       THEN /\ CreateTask(reconcilers[r].booking_id)
            /\ reconcilers' = [reconcilers EXCEPT ![r].pc = "idle",
                                                  ![r].result = "confirmed",
                                                  ![r].spawned = TRUE]
       ELSE /\ ReconcilerReturn(r, "error")
            /\ UNCHANGED tasks
    /\ UNCHANGED <<now, bookings, payments, links, paid, failedPay, creators,
                   cancellers, webhooks, dispatched, slots>>

\* ----------------------------------------- send_booking_confirmation_email

\* the task ends: its slot is free again, the marker it read and whether it
\* dispatched stay readable until the slot is taken
TaskEnd(t) ==
    tasks' = [tasks EXCEPT ![t] =
                [FreeTask EXCEPT !.booking_id = tasks[t].booking_id,
                                 !.pay_receipt = tasks[t].pay_receipt,
                                 !.sent = tasks[t].sent]]

\* get_booking_by_id
TaskGetBooking(t, ok) ==
    /\ tasks[t].pc = "get_booking"
    /\ IF ok THEN tasks' = [tasks EXCEPT ![t].pc = "get_payment"] ELSE TaskEnd(t)
    /\ UNCHANGED <<now, bookings, payments, links, paid, failedPay, creators,
                   cancellers, webhooks, reconcilers, dispatched, slots>>

\* the marker is not looked at
TaskGetPaymentNoGate(t, ok) ==
    /\ tasks[t].pc = "get_payment"
    /\ LET b == tasks[t].booking_id
           has == HasPayment(payments, b)
           p == GetPaymentByBooking(payments, b)
       IN  IF ~ok THEN TaskEnd(t)
           ELSE IF has
           THEN tasks' = [tasks EXCEPT ![t].pc = "get_profile",
                             ![t].has_payment = TRUE,
                             ![t].pay_status = p.payment_status,
                             ![t].pay_txn = p.transaction_id,
                             ![t].pay_receipt = p.receipt_url]
           ELSE tasks' = [tasks EXCEPT ![t].pc = "get_profile"]
    /\ UNCHANGED <<now, bookings, payments, links, paid, failedPay, creators,
                   cancellers, webhooks, reconcilers, dispatched, slots>>

\* get_payment_by_booking and the gate on the notification-sent marker
TaskGetPayment(t, ok) ==
    /\ tasks[t].pc = "get_payment"
    /\ LET b == tasks[t].booking_id
           has == HasPayment(payments, b)
           p == GetPaymentByBooking(payments, b)
       IN  IF ~ok THEN TaskEnd(t)
           ELSE IF has /\ p.receipt_url = "email_sent"
           THEN tasks' = [tasks EXCEPT ![t] =
                            [FreeTask EXCEPT !.booking_id = b,
                                             !.pay_receipt = "email_sent"]]
           ELSE IF has
           THEN tasks' = [tasks EXCEPT ![t].pc = "get_profile",
                             ![t].has_payment = TRUE,
                             ![t].pay_status = p.payment_status,
                             ![t].pay_txn = p.transaction_id,
                             ![t].pay_receipt = p.receipt_url]
           ELSE tasks' = [tasks EXCEPT ![t].pc = "get_profile"]
    /\ UNCHANGED <<now, bookings, payments, links, paid, failedPay, creators,
                   cancellers, webhooks, reconcilers, dispatched, slots>>

\* get_user_profile and the recipient: the profile's e-mail, else the fallback,
\* else the receipt e-mail of the payment intent named by the payment record
\* (piEmail: the intent carries one).  The greeting then reads
\* user_profile.get('full_name'), which raises when there is no profile row.
\* fallback: the caller passed a fallback_email; it is read here and nowhere else.
TaskGetProfile(t, fallback, piEmail) ==
    /\ tasks[t].pc = "get_profile"
    /\ LET r == tasks[t]
           profile == ProfileOf(bookings[r.booking_id].user_id)
           recipient == \/ profile = "email"
                        \/ fallback
                        \/ (r.has_payment /\ r.pay_txn = "pi" /\ piEmail)
       IN  IF recipient /\ profile # "none"
           THEN tasks' = [tasks EXCEPT ![t].pc = "send"]
           ELSE TaskEnd(t)
    /\ UNCHANGED <<now, bookings, payments, links, paid, failedPay, creators,
                   cancellers, webhooks, reconcilers, dispatched, slots>>

\* a task that goes on to write the marker when the send raised
TaskSendMarksOnFailure(t, ok) ==
    /\ tasks[t].pc = "send"
    /\ LET b == tasks[t].booking_id IN
        IF ok
        THEN /\ dispatched[b] < MaxDispatch
             /\ dispatched' = [dispatched EXCEPT ![b] = @ + 1]
             /\ IF tasks[t].has_payment
                THEN tasks' = [tasks EXCEPT ![t].pc = "mark", ![t].sent = TRUE]
                ELSE tasks' = [tasks EXCEPT ![t] =
                        [FreeTask EXCEPT !.booking_id = b, !.sent = TRUE]]
        ELSE /\ IF tasks[t].has_payment
                THEN tasks' = [tasks EXCEPT ![t].pc = "mark"]
                ELSE TaskEnd(t)
             /\ UNCHANGED dispatched
    /\ UNCHANGED <<now, bookings, payments, links, paid, failedPay, creators,
                   cancellers, webhooks, reconcilers, slots>>

\* _send_email_with_attachment in a worker thread
TaskSend(t, ok) ==
    /\ tasks[t].pc = "send"
    /\ LET b == tasks[t].booking_id IN
        IF ok
        THEN /\ dispatched[b] < MaxDispatch
             /\ dispatched' = [dispatched EXCEPT ![b] = @ + 1]
             /\ IF tasks[t].has_payment
                THEN tasks' = [tasks EXCEPT ![t].pc = "mark", ![t].sent = TRUE]
                ELSE tasks' = [tasks EXCEPT ![t] =
                        [FreeTask EXCEPT !.booking_id = b, !.sent = TRUE]]
        ELSE /\ TaskEnd(t)
             /\ UNCHANGED dispatched
    /\ UNCHANGED <<now, bookings, payments, links, paid, failedPay, creators,
                   cancellers, webhooks, reconcilers, slots>>

\* the marker is written with the status and transaction id the task read
TaskMark(t, ok) ==
    /\ tasks[t].pc = "mark"
    /\ LET r == tasks[t] IN
        payments' = IF ok
                    THEN UpdatePaymentStatus(payments, r.booking_id, r.pay_status,
                                             r.pay_txn, NoTime, "email_sent")
                    ELSE payments
    /\ TaskEnd(t)
    /\ UNCHANGED <<now, bookings, links, paid, failedPay, creators,
                   cancellers, webhooks, reconcilers, dispatched, slots>>

\* ------------------------------------------------ get_available_time_slots

\* instants are quarters of an hour, 96 to the day; day d starts at 00:00
DayStart(d) == 96 * d

\* 23:59:59 of day d: the last quarter of an hour that is not after it
DayEnd(d) == 96 * d + 95

\* datetime.hour
HourOf(t) == (t \div 4) % 24

\* slot h of day d is [h:00, h+1:00)
SlotStart(d, h) == DayStart(d) + 4 * h

SlotEnd(d, h) == DayStart(d) + 4 * h + 4

\* get_bookings_for_space: rows of the space, not cancelled, with
\* start_time >= start_date and end_time <= end_date
GetBookingsForSpace(bks, s, from, to) ==
    {i \in 1..Len(bks) : /\ bks[i].space_id = s
                         /\ bks[i].status # "cancelled"
                         /\ bks[i].start_time >= from
                         /\ bks[i].end_time <= to}

\* booked_hours: from the start of each row in steps of one hour while
\* before its end, the hour of the day of each step
BookedHours(bks, rows) ==
    UNION {{HourOf(bks[i].start_time + 4 * k) :
                k \in {j \in 0..23 : bks[i].start_time + 4 * j < bks[i].end_time}} :
           i \in rows}

\* the hours from 8 to 21 that are not booked
AvailableTimeSlots(bks, s, d) ==
    {h \in 8..21 :
        h \notin BookedHours(bks, GetBookingsForSpace(bks, s, DayStart(d), DayEnd(d)))}

NoSlots == [calls |-> 0, space_id |-> "s1", date |-> 0, available |-> {},
            result |-> "none"]

\* the tool: get_space_by_id, get_bookings_for_space, then the list of slots
GetAvailableTimeSlots(s, d, ok) ==
    /\ slots' = IF ~ok
                THEN [NoSlots EXCEPT !.calls = 1, !.space_id = s, !.date = d,
                                     !.result = "exception"]
                ELSE IF ~GetSpaceById(s)
                THEN [NoSlots EXCEPT !.calls = 1, !.space_id = s, !.date = d,
                                     !.result = "space_not_found"]
                ELSE [NoSlots EXCEPT !.calls = 1, !.space_id = s, !.date = d,
                                     !.available = AvailableTimeSlots(bookings, s, d),
                                     !.result = "slots"]
    /\ UNCHANGED <<now, bookings, payments, links, paid, failedPay, creators,
                   cancellers, webhooks, reconcilers, tasks, dispatched>>

\* ------------------------------------------------------------------- specs

\* nothing booked yet, every handler idle
Init ==
    /\ now = 0
    /\ bookings = << >>
    /\ payments = << >>
    /\ links = {}
    /\ paid = {}
    /\ failedPay = {}
    /\ creators = [c \in Creators |-> IdleCreator]
    /\ cancellers = [k \in Cancellers |-> IdleCanceller]
    /\ webhooks = [w \in Webhooks |-> IdleWebhook]
    /\ reconcilers = [r \in Reconcilers |-> IdleReconciler]
    /\ tasks = [t \in TaskIds |-> FreeTask]
    /\ dispatched = [b \in BookingIds |-> 0]
    /\ slots = NoSlots

\* the same, with one client calling create_booking
InitSeq ==
    /\ now = 0
    /\ bookings = << >>
    /\ payments = << >>
    /\ links = {}
    /\ paid = {}
    /\ failedPay = {}
    /\ creators = [c \in SeqCreators |-> IdleCreator]
    /\ cancellers = [k \in Cancellers |-> IdleCanceller]
    /\ webhooks = [w \in Webhooks |-> IdleWebhook]
    /\ reconcilers = [r \in Reconcilers |-> IdleReconciler]
    /\ tasks = [t \in TaskIds |-> FreeTask]
    /\ dispatched = [b \in BookingIds |-> 0]
    /\ slots = NoSlots

\* one pending booking as create_booking leaves it once the payment link is
\* minted: owned by u, with its payment record (rec) or without it (the insert
\* of the record failed).  The handlers below address rows by booking id only,
\* so one booking shows what they do to any.
InitPending ==
    \E u \in Users, rec \in BOOLEAN :
        /\ now = 0
        /\ bookings = InsertBooking(<< >>, u, "s1", 1, 2, "hourly",
                                    TotalAmount("s1", "hourly", 1))
        /\ payments = IF rec THEN CreatePaymentRecord(<< >>, 1, "plink") ELSE << >>
        /\ links = {1}
        /\ paid = {}
        /\ failedPay = {}
        /\ creators = << >>
        /\ cancellers = [k \in Cancellers |-> IdleCanceller]
        /\ webhooks = [w \in Webhooks |-> IdleWebhook]
        /\ reconcilers = [r \in Reconcilers |-> IdleReconciler]
        /\ tasks = [t \in TaskIds |-> FreeTask]
        /\ dispatched = [b \in BookingIds |-> 0]
        /\ slots = NoSlots

\* no handler is between two of its steps
Quiescent ==
    /\ \A c \in DOMAIN creators : creators[c].pc = "idle"
    /\ \A k \in DOMAIN cancellers : cancellers[k].pc = "idle"
    /\ \A w \in DOMAIN webhooks : webhooks[w].pc = "idle"
    /\ \A r \in DOMAIN reconcilers : reconcilers[r].pc = "idle"

CreateSteps ==
    \/ \E c \in DOMAIN creators, ok \in BOOLEAN : CreateBookingCheck(c, ok)
    \/ \E c \in DOMAIN creators, out \in InsertOutcomes : CreateBookingInsert(c, out)
    \/ \E c \in DOMAIN creators, ok \in BOOLEAN : CreateBookingMint(c, ok)
    \/ \E c \in DOMAIN creators, ok \in BOOLEAN : CreateBookingRecord(c, ok)

\* create_booking with any user, space and pair of instants, once per client
Create ==
    \/ \E c \in DOMAIN creators, u \in Users, s \in SpaceIds, st \in Hours, en \in Hours :
            creators[c].calls < 1 /\ CreateBookingCall(c, u, s, st, en, "hourly")
    \/ CreateSteps

\* create_booking by user u1 on space s1 with st < en, once per client
CreateValid ==
    \/ \E c \in DOMAIN creators, st \in Hours, en \in Hours :
            creators[c].calls < 1 /\ st < en /\ CreateBookingCall(c, "u1", "s1", st, en, "hourly")
    \/ CreateSteps

\* create_booking by user u1, called only while no other handler runs
CreateSeq ==
    \/ \E c \in DOMAIN creators, s \in SpaceIds, st \in Hours, en \in Hours :
            /\ Quiescent
            /\ creators[c].calls < MaxSeqCreates
            /\ CreateBookingCall(c, "u1", s, st, en, "hourly")
    \/ CreateSteps

Cancel ==
    \/ \E k \in Cancellers, b \in BookingIds, u \in Users, ok \in BOOLEAN :
            CancelBookingCall(k, b, u, ok)
    \/ \E k \in Cancellers, ok \in BOOLEAN : CancelBookingUpdate(k, ok)

CancelSeq ==
    \/ \E k \in Cancellers, b \in BookingIds, u \in Users, ok \in BOOLEAN :
            Quiescent /\ CancelBookingCall(k, b, u, ok)
    \/ \E k \in Cancellers, ok \in BOOLEAN : CancelBookingUpdate(k, ok)

Provider ==
    \/ \E b \in BookingIds : CustomerPays(b)
    \/ \E b \in BookingIds : PaymentAttemptFails(b)

WebhookSuccess ==
    \/ \E w \in Webhooks, b \in BookingIds, ok \in BOOLEAN :
            WebhookCheckoutCompleted(w, b, ok)
    \/ \E w \in Webhooks, ok \in BOOLEAN : WebhookUpdatePayment(w, ok)
    \/ \E w \in Webhooks, b \in BookingIds, ok \in BOOLEAN :
            WebhookIntentSucceeded(w, b, ok)
    \/ \E w \in Webhooks : WebhookRespond(w)

Webhook ==
    \/ WebhookSuccess
    \/ \E w \in Webhooks, b \in BookingIds, ok \in BOOLEAN :
            WebhookPaymentFailed(w, b, ok)

Reconcile ==
    \/ \E r \in Reconcilers, b \in BookingIds, ok \in BOOLEAN : ReconcileCall(r, b, ok)
    \/ \E r \in Reconcilers, ok \in BOOLEAN, lo \in BOOLEAN, ro \in BOOLEAN, so \in BOOLEAN :
            ReconcileLookup(r, ok, lo, ro, so)
    \/ \E r \in Reconcilers, ok \in BOOLEAN : ReconcileUpdateBooking(r, ok)
    \/ \E r \in Reconcilers, ok \in BOOLEAN : ReconcileUpdatePayment(r, ok)
    \/ \E r \in Reconcilers, ok \in BOOLEAN : ReconcileReload(r, ok)

Notify ==
    \/ \E t \in TaskIds, ok \in BOOLEAN : TaskGetBooking(t, ok)
    \/ \E t \in TaskIds, ok \in BOOLEAN : TaskGetPayment(t, ok)
    \/ \E t \in TaskIds, fb \in BOOLEAN, e \in BOOLEAN : TaskGetProfile(t, fb, e)
    \/ \E t \in TaskIds, ok \in BOOLEAN : TaskSend(t, ok)
    \/ \E t \in TaskIds, ok \in BOOLEAN : TaskMark(t, ok)

\* the booking ledger: concurrent create_booking and cancel_booking calls, the
\* customer paying, and payment_intent.succeeded events
Next ==
    \/ CreateValid
    \/ Cancel
    \/ \E b \in BookingIds : CustomerPays(b)
    \/ \E w \in Webhooks, b \in BookingIds, ok \in BOOLEAN : WebhookIntentSucceeded(w, b, ok)
    \/ \E w \in Webhooks : WebhookRespond(w)

Spec == Init /\ [][Next]_vars

\* concurrent create_booking calls alone
NextRace == Create

SpecRace == Init /\ [][NextRace]_vars

\* create_booking and cancel_booking, each call run to completion before the next
NextSeq == CreateSeq \/ CancelSeq

SpecSeq == InitSeq /\ [][NextSeq]_vars

\* reconciliation of one booking: provider, webhook, reconcile endpoint and
\* e-mail tasks interleaved
NextRecon == Tick \/ Provider \/ Webhook \/ Reconcile \/ Notify

SpecRecon == InitPending /\ [][NextRecon]_vars

\* one booking that its owner may cancel while the payment is reconciled
NextCancel ==
    \/ Cancel
    \/ \E b \in BookingIds : CustomerPays(b)
    \/ WebhookSuccess
    \/ Reconcile
    \/ Notify

SpecCancel == InitPending /\ [][NextCancel]_vars

\* create_booking alone, at any time of the clock, with every billing mode on
\* every space of the catalog, once per client
InitClock ==
    /\ now \in Times
    /\ bookings = << >>
    /\ payments = << >>
    /\ links = {}
    /\ paid = {}
    /\ failedPay = {}
    /\ creators = [c \in Creators |-> IdleCreator]
    /\ cancellers = [k \in Cancellers |-> IdleCanceller]
    /\ webhooks = [w \in Webhooks |-> IdleWebhook]
    /\ reconcilers = [r \in Reconcilers |-> IdleReconciler]
    /\ tasks = [t \in TaskIds |-> FreeTask]
    /\ dispatched = [b \in BookingIds |-> 0]
    /\ slots = NoSlots

CreateAny ==
    \/ \E c \in DOMAIN creators, s \in RequestedSpaces, st \in Hours, en \in Hours,
            dt \in DurationTypes :
            creators[c].calls < 1 /\ CreateBookingCall(c, "u1", s, st, en, dt)
    \/ CreateSteps

NextCreate == CreateAny

SpecCreate == InitClock /\ [][NextCreate]_vars

\* every request the webhook endpoint can receive about one pending booking:
\* verified events of every kind, with or without a booking reference, and
\* requests that do not verify
WebhookOther ==
    \/ \E w \in Webhooks, body \in Payloads :
            \E header \in Headers(body) : WebhookReject(w, body, header)
    \/ \E w \in Webhooks, kind \in EventKinds, sref \in {0, 1}, hasPi \in BOOLEAN,
            pref \in {0, 1}, retrieveOk \in BOOLEAN :
            WebhookAcknowledge(w, kind, sref, hasPi, pref, retrieveOk)

NextHook == Provider \/ Webhook \/ WebhookOther \/ Notify

SpecHook == InitPending /\ [][NextHook]_vars

\* the webhook never arrives: the customer pays and reconcile is called again
\* and again.  A request that is made again and again is eventually answered
\* (strong fairness of the ok = TRUE step); e-mail tasks run to their end.
NextLive ==
    \/ \E b \in BookingIds : CustomerPays(b)
    \/ Reconcile
    \/ Notify

FairLive ==
    /\ \A r \in Reconcilers :
        /\ SF_vars(ReconcileCall(r, 1, TRUE))
        /\ SF_vars(ReconcileLookup(r, TRUE, TRUE, TRUE, TRUE))
        /\ SF_vars(ReconcileUpdateBooking(r, TRUE))
        /\ SF_vars(ReconcileUpdatePayment(r, TRUE))
        /\ SF_vars(ReconcileReload(r, TRUE))
    /\ WF_vars(Notify)

SpecLive == InitPending /\ [][NextLive]_vars /\ FairLive

\* the two availability views of one bookings table: up to two bookings of
\* space s1 between Monday 22:00 and Wednesday 09:00, with starts and ends on
\* and off the hour, and the slots of Tuesday and Wednesday asked for
SlotInstants == {88, 132, 134, 138, 140, 228}

SlotDays == {1, 2}

SlotRow(st, en, status) ==
    [InsertBooking(<< >>, "u1", "s1", st, en, "hourly",
                   TotalAmount("s1", "hourly", en - st))[1]
        EXCEPT !.status = status]

SlotRows ==
    {SlotRow(iv[1], iv[2], status) :
        iv \in {p \in SlotInstants \X SlotInstants : p[1] < p[2]},
        status \in {"pending", "cancelled"}}

InitSlots ==
    /\ now = 0
    /\ bookings \in {<< >>} \cup {<<x>> : x \in SlotRows}
                          \cup {<<x, y>> : x \in SlotRows, y \in SlotRows}
    /\ payments = << >>
    /\ links = {}
    /\ paid = {}
    /\ failedPay = {}
    /\ creators = << >>
    /\ cancellers = [k \in Cancellers |-> IdleCanceller]
    /\ webhooks = [w \in Webhooks |-> IdleWebhook]
    /\ reconcilers = [r \in Reconcilers |-> IdleReconciler]
    /\ tasks = [t \in TaskIds |-> FreeTask]
    /\ dispatched = [b \in BookingIds |-> 0]
    /\ slots = NoSlots

NextSlots ==
    \E s \in SpaceIds, d \in SlotDays, ok \in BOOLEAN : GetAvailableTimeSlots(s, d, ok)

SpecSlots == InitSlots /\ [][NextSlots]_vars

\* ------------------------------------------------------------------ claims

Active(row) == row.status \in {"pending", "confirmed"}

Overlap(x, y) == x.start_time < y.end_time /\ y.start_time < x.end_time

DoubleBooked ==
    \E i, j \in 1..Len(bookings) :
        /\ i < j
        /\ bookings[i].space_id = bookings[j].space_id
        /\ Active(bookings[i]) /\ Active(bookings[j])
        /\ Overlap(bookings[i], bookings[j])

\* C1: in every reachable state no two pending or confirmed bookings of the
\* same space have overlapping intervals [start, end).
C1_NoDoubleBooking == ~DoubleBooked

Returned(c) == creators[c].pc = "idle" /\ creators[c].calls > 0

SameSlot(x, y) ==
    /\ x.space_id = y.space_id
    /\ x.start_time = y.start_time
    /\ x.end_time = y.end_time

\* C2: of two create_booking calls for the same space and the same interval,
\* neither of which met a database error, exactly one returns success with a
\* pending row and the other returns the slot-unavailable error.
C2_ExactlyOneWins ==
    \A c \in DOMAIN creators, d \in DOMAIN creators :
        (/\ c # d
         /\ Returned(c) /\ Returned(d)
         /\ SameSlot(creators[c], creators[d])
         /\ creators[c].result \in {"success", "unavailable"}
         /\ creators[d].result \in {"success", "unavailable"}
         /\ ~creators[c].retried /\ ~creators[d].retried)
        => /\ creators[c].result # creators[d].result
           /\ Cardinality({i \in 1..Len(bookings) :
                              SameSlot(bookings[i], creators[c])}) = 1

\* C3: after any sequence of create_booking and cancel_booking calls, each run
\* to completion before the next starts, no two pending or confirmed bookings
\* of the same space overlap.
C3_SequentialNoOverlap == Quiescent => ~DoubleBooked

\* C4: the transition to confirmed changes a booking's status only when the
\* booking is pending; a cancelled booking never becomes confirmed.
C4_CancelledNeverConfirmed ==
    [][\A i \in 1..Len(bookings) :
          /\ bookings[i].status = "cancelled" => bookings'[i].status = "cancelled"
          /\ bookings'[i].status = "confirmed"
                => bookings[i].status \in {"pending", "confirmed"}]_vars

PaymentOf(b) == GetPaymentByBooking(payments, b)

\* C5: the payment update of a checkout.session.completed event applied to a
\* booking that is already confirmed, with its payment record already completed
\* under the intent's id, leaves the payment record as the first application
\* wrote it (status, transaction reference, paid-at instant).
C5_ReplayLeavesPayment ==
    [][\A w \in DOMAIN webhooks :
          (/\ webhooks[w].pc = "upd_payment"
           /\ webhooks'[w].pc = "done"
           /\ bookings[webhooks[w].booking_id].status = "confirmed"
           /\ HasPayment(payments, webhooks[w].booking_id)
           /\ PaymentOf(webhooks[w].booking_id).payment_status = "completed"
           /\ PaymentOf(webhooks[w].booking_id).transaction_id = "pi")
          => payments' = payments]_vars

\* C6: for every booking the confirmation e-mail is dispatched at most once.
C6_AtMostOneDispatch == \A b \in BookingIds : dispatched[b] <= 1

\* C7: a send_booking_confirmation_email task that reads the payment record
\* after an earlier task dispatched and wrote the notification-sent marker
\* does nothing: it ends without dispatching, and the one dispatch stands.
C7_MarkerStopsSecondSend ==
    \A t \in DOMAIN tasks :
        tasks[t].pay_receipt = "email_sent"
        => /\ tasks[t].pc = "free"
           /\ ~tasks[t].sent
           /\ dispatched[tasks[t].booking_id] >= 1

C7_Witness ==
    \E t \in DOMAIN tasks :
        /\ tasks[t].pay_receipt = "email_sent"
        /\ tasks[t].pc = "free"
        /\ dispatched[tasks[t].booking_id] = 1

\* C8: reconcile writes (booking to confirmed, payment record to completed)
\* only for a booking the provider reports a succeeded payment for; a call that
\* returns "pending" has written nothing and created no e-mail task.
C8_ReconcileNeedsSucceededPayment ==
    \A r \in DOMAIN reconcilers :
        /\ (reconcilers[r].pc \in {"upd_booking", "upd_payment", "reload"}
            \/ reconcilers[r].wrote)
           => reconcilers[r].booking_id \in paid
        /\ reconcilers[r].result = "pending"
           => /\ ~reconcilers[r].wrote
              /\ ~reconcilers[r].spawned

\* a declined attempt is all the provider holds: reconcile answers "pending"
C8_Witness ==
    \E r \in DOMAIN reconcilers :
        /\ reconcilers[r].result = "pending"
        /\ reconcilers[r].pc = "idle"
        /\ reconcilers[r].calls > 0
        /\ reconcilers[r].booking_id \in failedPay
        /\ bookings[reconcilers[r].booking_id].status = "pending"

\* C9: a reconcile call that reads the booking as confirmed returns
\* "confirmed" at once: no provider call, no write, no e-mail task.
C9_ConfirmedShortCircuit ==
    \A r \in DOMAIN reconcilers :
        reconcilers[r].seen = "confirmed"
        => /\ reconcilers[r].pc = "idle"
           /\ reconcilers[r].result = "confirmed"
           /\ reconcilers[r].calls = 0
           /\ ~reconcilers[r].wrote
           /\ ~reconcilers[r].spawned

C9_Witness ==
    \E r \in DOMAIN reconcilers :
        /\ reconcilers[r].seen = "confirmed"
        /\ reconcilers[r].result = "confirmed"

\* C10: once the provider holds a succeeded payment for a booking that has a
\* payment record, repeated reconcile calls eventually leave the booking
\* confirmed and the payment record completed.
C10_ReconcileRecovers ==
    (1 \in paid /\ HasPayment(payments, 1))
    ~> (/\ bookings[1].status = "confirmed"
        /\ HasPayment(payments, 1)
        /\ PaymentOf(1).payment_status = "completed")

\* the step in which request w is answered
Answered(w) == webhooks[w].pc # "done" /\ webhooks'[w].pc = "done"

SuccessKinds == {"checkout.session.completed", "payment_intent.succeeded"}

\* C11: when the webhook handler answers a verified success event of either
\* kind that names a booking, all its persistence writes having succeeded, the
\* booking is confirmed, its payment record (if it has one) is completed,
\* and the confirmation e-mail task has been created.
C11_SuccessEventConfirms ==
    [][\A w \in DOMAIN webhooks :
          (/\ Answered(w)
           /\ webhooks'[w].event \in SuccessKinds
           /\ webhooks'[w].booking_id # 0
           /\ webhooks'[w].writes =
                 (IF webhooks'[w].event = "checkout.session.completed" THEN 2 ELSE 1))
          => /\ bookings'[webhooks'[w].booking_id].status = "confirmed"
             /\ HasPayment(payments', webhooks'[w].booking_id)
                => GetPaymentByBooking(payments', webhooks'[w].booking_id).payment_status
                      = "completed"
             /\ webhooks'[w].spawned]_vars

\* C12: a webhook request without the signature header, with a header that
\* does not verify against the shared secret, or with a body that is not an
\* event, is answered 400 in one step that writes nothing, names no booking,
\* and leaves bookings, payment records, e-mail tasks and dispatches unchanged.
C12_UnverifiedRejected ==
    [][\A w \in DOMAIN webhooks :
          (/\ Answered(w)
           /\ (webhooks'[w].sig # "valid" \/ webhooks'[w].event = "garbage"))
          => /\ webhooks[w].pc = "idle"
             /\ webhooks'[w].response = "400"
             /\ webhooks'[w].writes = 0
             /\ webhooks'[w].booking_id = 0
             /\ UNCHANGED <<bookings, payments, tasks, dispatched>>]_vars

\* a request signed with another key has been answered 400
C12_Witness ==
    \E w \in DOMAIN webhooks :
        /\ webhooks[w].pc = "done"
        /\ webhooks[w].sig = "forged"
        /\ webhooks[w].event = "checkout.session.completed"
        /\ webhooks[w].response = "400"

\* C13: a payment record whose status is completed keeps that status in
\* every step.
C13_CompletedIsFinal ==
    [][\A i \in 1..Len(payments) :
          payments[i].payment_status = "completed"
          => payments'[i].payment_status = "completed"]_vars

\* C14: the step that answers a payment_intent.payment_failed event of a
\* booking, its write having succeeded, leaves the payment record failed and
\* every booking as it was; and no booking is ever cancelled where no
\* cancel_booking call is made.
C14_FailedPaymentKeepsBooking ==
    /\ [](\A i \in 1..Len(bookings) : bookings[i].status # "cancelled")
    /\ [][\A w \in DOMAIN webhooks :
             (/\ Answered(w)
              /\ webhooks'[w].event = "payment_intent.payment_failed"
              /\ webhooks'[w].booking_id # 0
              /\ webhooks'[w].writes = 1)
             => /\ bookings' = bookings
                /\ HasPayment(payments, webhooks'[w].booking_id)
                   => GetPaymentByBooking(payments', webhooks'[w].booking_id).payment_status
                         = "failed"]_vars

C14_Witness ==
    \E w \in DOMAIN webhooks :
        /\ webhooks[w].pc = "done"
        /\ webhooks[w].event = "payment_intent.payment_failed"
        /\ webhooks[w].writes = 1
        /\ bookings[webhooks[w].booking_id].status = "pending"
        /\ HasPayment(payments, webhooks[w].booking_id)
        /\ PaymentOf(webhooks[w].booking_id).payment_status = "failed"

\* C15: the step that answers a verified event which is a customer.created
\* event, an event of a kind the handler does not know, or an event that names
\* no booking, acknowledges it, writes nothing and leaves bookings, payment
\* records, e-mail tasks and dispatches unchanged.
C15_UnresolvedAcknowledged ==
    [][\A w \in DOMAIN webhooks :
          (/\ Answered(w)
           /\ webhooks'[w].sig = "valid"
           /\ webhooks'[w].event # "garbage"
           /\ \/ webhooks'[w].event \in {"customer.created", "other"}
              \/ webhooks'[w].booking_id = 0)
          => /\ webhooks'[w].response \in {"success", "ignored", "failed"}
             /\ webhooks'[w].response = "failed"
                => webhooks'[w].event = "payment_intent.payment_failed"
             /\ webhooks'[w].writes = 0
             /\ ~webhooks'[w].spawned
             /\ UNCHANGED <<bookings, payments, tasks, dispatched>>]_vars

\* a checkout.session.completed event that names no booking was acknowledged
C15_Witness ==
    \E w \in DOMAIN webhooks :
        /\ webhooks[w].pc = "done"
        /\ webhooks[w].sig = "valid"
        /\ webhooks[w].event = "checkout.session.completed"
        /\ webhooks[w].booking_id = 0
        /\ webhooks[w].response = "success"

\* C16: of a success webhook and a reconcile call for the same booking, the
\* one that comes second writes nothing: the webhook handler does not start
\* writing once reconcile has written the booking, and reconcile does not
\* write a booking that is already confirmed.
C16_SecondWriterWritesNothing ==
    [][/\ \A w \in DOMAIN webhooks :
            (/\ webhooks[w].pc = "idle"
             /\ webhooks'[w].event \in SuccessKinds
             /\ webhooks'[w].writes = 1)
            => ~\E r \in DOMAIN reconcilers :
                    /\ reconcilers[r].booking_id = webhooks'[w].booking_id
                    /\ reconcilers[r].wrote
       /\ \A r \in DOMAIN reconcilers :
            (/\ reconcilers[r].pc = "upd_booking"
             /\ reconcilers'[r].pc = "upd_payment")
            => bookings[reconcilers[r].booking_id].status # "confirmed"]_vars

\* C17: a create_booking call whose payment link could not be minted returns
\* success with payment_error and without a link; its booking row is there
\* with status pending and has no payment record.
C17_MintFailureKeepsBooking ==
    \A c \in DOMAIN creators :
        (Returned(c) /\ creators[c].payment_error)
        => /\ creators[c].result = "success"
           /\ ~creators[c].payment_link
           /\ creators[c].booking_id \in 1..Len(bookings)
           /\ bookings[creators[c].booking_id].status = "pending"
           /\ ~HasPayment(payments, creators[c].booking_id)

C17_Witness ==
    \E c \in DOMAIN creators :
        /\ Returned(c)
        /\ creators[c].payment_error
        /\ creators[c].result = "success"
        /\ bookings[creators[c].booking_id].status = "pending"

\* C18: a booking for which create_booking has returned a payment link has
\* exactly one payment record, with status pending; no booking has more than
\* one payment record.
C18_OnePaymentRecordPerLink ==
    /\ \A c \in DOMAIN creators :
        (Returned(c) /\ creators[c].payment_link)
        => /\ Cardinality(PaymentRows(payments, creators[c].booking_id)) = 1
           /\ PaymentOf(creators[c].booking_id).payment_status = "pending"
    /\ \A b \in BookingIds : Cardinality(PaymentRows(payments, b)) <= 1

\* C19: a create_booking call whose start is not after the instant of the
\* call, or whose end is not after its start, returns an error, creates no
\* booking row and asks for no payment link.
C19_PastOrEmptyIntervalRejected ==
    \A c \in DOMAIN creators :
        (/\ creators[c].calls > 0
         /\ \/ creators[c].start_time <= creators[c].called_at
            \/ creators[c].end_time <= creators[c].start_time)
        => /\ creators[c].result # "success"
           /\ creators[c].booking_id = 0
           /\ ~creators[c].payment_link

\* C19, as the code has it: a create_booking call whose start is before the
\* instant of the call, or whose end is not after its start, returns at once
\* with the error of its case ("Cannot book in the past" first), creates no
\* booking row and asks for no payment link.
C19_BeforeNowOrEmptyIntervalRejected ==
    \A c \in DOMAIN creators :
        (/\ creators[c].calls > 0
         /\ \/ creators[c].start_time < creators[c].called_at
            \/ creators[c].end_time <= creators[c].start_time)
        => /\ creators[c].pc = "idle"
           /\ creators[c].result =
                 (IF creators[c].start_time < creators[c].called_at
                  THEN "past" ELSE "bad_interval")
           /\ creators[c].booking_id = 0
           /\ ~creators[c].payment_link

\* a call for an hour that has passed came back with the error, and so did a
\* call for an empty interval
C19_Witness ==
    /\ \E c \in DOMAIN creators :
        /\ creators[c].result = "past"
        /\ creators[c].start_time < creators[c].called_at
        /\ creators[c].start_time < creators[c].end_time
    /\ \E c \in DOMAIN creators :
        /\ creators[c].result = "bad_interval"
        /\ creators[c].end_time = creators[c].start_time
    /\ bookings = << >>

\* C20: a create_booking call whose billing mode is not hourly, daily or
\* monthly returns an error, creates no booking row and asks for no payment
\* link.
C20_UnknownBillingModeRejected ==
    \A c \in DOMAIN creators :
        (/\ creators[c].calls > 0
         /\ creators[c].duration_type \notin {"hourly", "daily", "monthly"})
        => /\ creators[c].result # "success"
           /\ creators[c].booking_id = 0
           /\ ~creators[c].payment_link

\* C21: create_booking persists a Booking only for a space that exists and is
\* active; for an unknown or inactive space no Booking row is created and the
\* call does not succeed.
C21_BookingOnlyForActiveSpace ==
    \A c \in DOMAIN creators :
        (creators[c].calls > 0
         /\ ~(GetSpaceById(creators[c].space_id) /\ IsActive(creators[c].space_id)))
        => /\ creators[c].booking_id = 0
           /\ creators[c].result # "success"
           /\ \A i \in 1..Len(bookings) : bookings[i].space_id # creators[c].space_id

\* C22: the availability check of create_booking finds the slot taken exactly
\* when some booking of the space that is not cancelled has start < e and
\* s < end for the requested [s, e); a booking that only touches the slot does
\* not block it, and the check changes no booking and no payment record.
C22_AvailabilityIsOverlapTest ==
    [][\A c \in DOMAIN creators :
        (/\ creators[c].pc = "check"
         /\ creators'[c].pc # "check"
         /\ creators'[c].result # "exception")
        => /\ (creators'[c].result = "unavailable")
              <=> (\E i \in 1..Len(bookings) :
                      /\ bookings[i].space_id = creators[c].space_id
                      /\ bookings[i].status \in {"pending", "confirmed"}
                      /\ bookings[i].start_time < creators[c].end_time
                      /\ creators[c].start_time < bookings[i].end_time)
           /\ bookings' = bookings
           /\ payments' = payments]_vars

\* a slot that starts where a pending booking of the space ends passed the check
C22_Witness ==
    \E c \in DOMAIN creators, i \in 1..Len(bookings) :
        /\ creators[c].pc = "insert"
        /\ bookings[i].space_id = creators[c].space_id
        /\ bookings[i].status = "pending"
        /\ bookings[i].end_time = creators[c].start_time

\* C23: cancel_booking goes on to the update only for the booking's owner and
\* a booking that is pending or confirmed; a booking becomes cancelled only by
\* the update of such a call; a call answered with an error leaves every
\* booking's status as it was.
C23_CancelOnlyByOwnerOfLiveBooking ==
    [][/\ \A k \in DOMAIN cancellers :
            (cancellers[k].pc = "idle" /\ cancellers'[k].pc = "update")
            => /\ bookings[cancellers'[k].booking_id].user_id = cancellers'[k].user_id
               /\ bookings[cancellers'[k].booking_id].status \in {"pending", "confirmed"}
       /\ \A i \in 1..Len(bookings) :
            (bookings[i].status # "cancelled" /\ bookings'[i].status = "cancelled")
            => \E k \in DOMAIN cancellers :
                /\ cancellers[k].pc = "update"
                /\ cancellers[k].booking_id = i
                /\ cancellers[k].user_id = bookings[i].user_id
                /\ bookings[i].status \in {"pending", "confirmed"}
                /\ cancellers'[k].result = "cancelled"
       /\ \A k \in DOMAIN cancellers :
            (/\ cancellers'[k] # cancellers[k]
             /\ cancellers'[k].pc = "idle"
             /\ cancellers'[k].result # "cancelled")
            => bookings' = bookings]_vars

\* the owner cancelled a booking that had been paid and confirmed
C23_Witness ==
    \E k \in DOMAIN cancellers :
        /\ cancellers[k].result = "cancelled"
        /\ bookings[1].status = "cancelled"
        /\ 1 \in paid

\* C24: for the three billing modes the amount of a booking is the hourly rate
\* times the elapsed hours, the flat daily rate or the flat monthly rate; when
\* the rate of the requested mode is not set the hourly rate is used if set,
\* else the daily rate; when neither is set the call is answered with the
\* pricing error and no booking is created.  Amounts are in quarters of a cent
\* and durations in quarters of an hour.
C24_AmountByModeWithFallback ==
    \A c \in DOMAIN creators :
        LET r == creators[c]
            quarters == r.end_time - r.start_time
            h == HourlyRate(r.space_id)
            d == DailyRate(r.space_id)
            m == MonthlyRate(r.space_id)
            requested == IF r.duration_type = "hourly" THEN h
                         ELSE IF r.duration_type = "daily" THEN d
                         ELSE m
        IN  (r.calls > 0 /\ r.duration_type \in {"hourly", "daily", "monthly"})
            => /\ (r.booking_id # 0 /\ requested # 0)
                  => bookings[r.booking_id].total_amount =
                        IF r.duration_type = "hourly" THEN h * quarters
                        ELSE requested * 4
               /\ (r.booking_id # 0 /\ requested = 0 /\ h # 0)
                  => bookings[r.booking_id].total_amount = h * quarters
               /\ (r.booking_id # 0 /\ requested = 0 /\ h = 0)
                  => /\ d # 0
                     /\ bookings[r.booking_id].total_amount = d * 4
               /\ (r.result = "no_pricing")
                  => (requested = 0 /\ h = 0 /\ d = 0 /\ r.booking_id = 0)

\* a monthly booking of a space without a monthly rate was priced by the hour,
\* and a daily booking of a space with a monthly rate alone was refused
C24_Witness ==
    /\ \E c \in DOMAIN creators :
        /\ creators[c].duration_type = "monthly"
        /\ creators[c].space_id = "s1"
        /\ creators[c].end_time - creators[c].start_time = 2
        /\ creators[c].booking_id # 0
        /\ bookings[creators[c].booking_id].total_amount = 2 * HourlyRate("s1")
    /\ \E c \in DOMAIN creators :
        /\ creators[c].duration_type = "daily"
        /\ creators[c].space_id = "s3"
        /\ creators[c].result = "no_pricing"

\* C25: for a booking with a payment link, the cents sent to the payment
\* provider and the total stored on the booking both equal the exact price
\* rounded half-up to a whole number of cents.  total_amount is in quarters of
\* a cent.
C25_AmountsRoundedHalfUp ==
    \A c \in DOMAIN creators :
        LET r == creators[c]
            exact == TotalAmount(r.space_id, r.duration_type, r.end_time - r.start_time)
        IN  (r.payment_link /\ r.duration_type \in {"hourly", "daily", "monthly"})
            => /\ r.amount_cents = RoundHalfUp(exact, 4)
               /\ bookings[r.booking_id].total_amount = 4 * RoundHalfUp(exact, 4)

\* C26: the step of an e-mail task that writes the notification-sent marker
\* changes the status of no payment record, whatever the webhook and the
\* reconcile endpoint wrote since the task read the record.
C26_MarkerWriteKeepsPaymentStatus ==
    [][\A t \in TaskIds :
        (tasks[t].pc = "mark" /\ tasks'[t].pc # "mark")
        => \A i \in 1..Len(payments) :
                payments'[i].payment_status = payments[i].payment_status]_vars

\* C27: an e-mail task that ends without a dispatch (no recipient, no profile
\* for the greeting, or a send that raised) changes no booking, no payment
\* record and sets no marker; the notification-sent marker is set only by a
\* task whose dispatch succeeded.
C27_FailedDispatchLeavesNoMarker ==
    [][/\ \A t \in TaskIds :
            (/\ tasks[t].pc \in {"get_profile", "send"}
             /\ tasks'[t].pc = "free"
             /\ ~tasks'[t].sent)
            => /\ bookings' = bookings
               /\ payments' = payments
               /\ dispatched' = dispatched
       /\ \A i \in 1..Len(payments) :
            (payments[i].receipt_url # "email_sent"
             /\ payments'[i].receipt_url = "email_sent")
            => /\ dispatched[payments[i].booking_id] >= 1
               /\ \E t \in TaskIds :
                    /\ tasks[t].pc = "mark"
                    /\ tasks[t].sent
                    /\ tasks[t].booking_id = payments[i].booking_id]_vars

\* a task of the confirmed and paid booking ended without a dispatch: the
\* booking is confirmed, the payment record completed and the marker unset
C27_Witness ==
    /\ \E t \in TaskIds :
        /\ tasks[t].pc = "free"
        /\ tasks[t].booking_id = 1
        /\ ~tasks[t].sent
        /\ tasks[t].pay_receipt # "email_sent"
    /\ \A t \in TaskIds : tasks[t].pc = "free"
    /\ dispatched[1] = 0
    /\ bookings[1].status = "confirmed"
    /\ HasPayment(payments, 1)
    /\ GetPaymentByBooking(payments, 1).payment_status = "completed"
    /\ GetPaymentByBooking(payments, 1).receipt_url = "none"

\* C28: a verified checkout.session.completed or payment_intent.succeeded event
\* of a booking, one of whose updates raised, is answered with the success
\* acknowledgement, and the handler starts no e-mail task and dispatches
\* nothing for it.
C28_FailedUpdateAcknowledged ==
    [][\A w \in DOMAIN webhooks :
          (/\ Answered(w)
           /\ webhooks'[w].event \in SuccessKinds
           /\ webhooks'[w].booking_id # 0
           /\ webhooks'[w].writes <
                 (IF webhooks'[w].event = "checkout.session.completed" THEN 2 ELSE 1))
          => /\ webhooks'[w].response = "success"
             /\ ~webhooks'[w].spawned
             /\ tasks' = tasks
             /\ dispatched' = dispatched]_vars

\* a checkout.session.completed event whose booking update went through and
\* whose payment update raised was acknowledged, with no e-mail task
C28_Witness ==
    \E w \in DOMAIN webhooks :
        /\ webhooks[w].pc = "done"
        /\ webhooks[w].event = "checkout.session.completed"
        /\ webhooks[w].writes = 1
        /\ webhooks[w].response = "success"
        /\ bookings[webhooks[w].booking_id].status = "confirmed"
        /\ \A t \in TaskIds : tasks[t].pc = "free" /\ tasks[t].booking_id = 0

\* C29: once every create_booking call has returned, the booking rows are
\* those of the calls that returned success, one row each: a call that
\* returned an error has left no row and a successful call exactly one.
C29_OutcomeAgreesWithRows ==
    (\A c \in DOMAIN creators : creators[c].pc = "idle")
    => Len(bookings) = Cardinality({c \in DOMAIN creators :
                            creators[c].calls > 0 /\ creators[c].result = "success"})

\* C30: every one-hour slot that get_available_time_slots reports for a space
\* and a date is a slot for which check_space_availability, asked about the
\* same bookings, returns true.
C30_ReportedSlotsAreAvailable ==
    [][slots' # slots
        => \A h \in slots'.available :
                CheckSpaceAvailability(bookings, slots'.space_id,
                                       SlotStart(slots'.date, h),
                                       SlotEnd(slots'.date, h))]_vars

====
